---- MODULE Spec2Model ----
(***************************************************************************)
(* SellWithDuranBot: a run of process_sitemap (bot.py) downloads and       *)
(* parses a sitemap, filters its URLs by date and against the processed    *)
(* and unprocessed logs, truncates to max_scrap and maps process_url       *)
(* (utils.py) over the batch on a thread pool; every process_url appends   *)
(* its URL to one of three CSV logs.  The logs persist from run to run.    *)
(*                                                                         *)
(* A URL is modelled as the sequence of its hyphen-delimited segments      *)
(* (what url.split('-') returns); a log file as the sequence of its CSV    *)
(* rows, a row being the sequence of its fields.                           *)
(***************************************************************************)
EXTENDS Integers, Sequences, FiniteSets, TLC

\* ------------------------------------------------------------------ bounds
\* number of invocations of process_sitemap in one behaviour
MaxRuns == 2
\* largest number of url elements in a downloaded sitemap
MaxSitemap == 2

\* ------------------------------------------------------- program constants
\* utils.py:368  current_cutoff = 3
start_cutoff == 3
\* utils.py:356  def process_url(url, config, max_cutoff = 6)
max_cutoff == 6
\* utils.py:350  response.status_code == 200
HTTP_OK == 200

\* ------------------------------------------------------------------ inputs
\* Three listing URLs, by their segments.  With cutoff c the resolver keeps
\* Len - c segments and needs two of them (and a third for the address):
\*   UrlLong: every cutoff 3..6 resolves and reaches the vendor API;
\*   UrlMid : cutoffs 3 and 4 reach the API, 5 leaves an empty address,
\*            6 cannot be resolved;
\*   UrlBad : no cutoff can be resolved (permanently malformed).
UrlLong == <<"p/1", "H1", "253", "Merrick", "Avenue", "Hempstead", "NY", "11554", "x">>
UrlMid == <<"p/2", "H2", "18", "Greenbrush", "Court", "NY", "11001">>
UrlBad == <<"p/3", "H3">>
Urls == {UrlLong, UrlMid, UrlBad}

\* lastmod strings of the sitemap, and what a url element without the child holds
Dates == {"2023-05-01", "2023-05-02"}
NoChild == "<missing>"

\* the three outcome logs (config keys of the log paths)
LogNames == {"processed_urls", "unprocessed_urls", "unsaved_urls"}

\* what datetime.now().strftime('%Y-%m-%d') returns during the runs
Today == "2023-05-02"

\* the sequences over S of length at most n
SeqUpTo(S, n) == UNION {[1..k -> S] : k \in 0..n}

\* ------------------------------------------------- utils.py: URL resolution
\* Python's s[:-n] for n > 0
DropLast(s, n) == IF n >= Len(s) THEN <<>> ELSE SubSeq(s, 1, Len(s) - n)

\* create_target_url returns False when parts[1] does not exist, otherwise
\* "https://www.sellwithduran.com/property/{parts[1]}/{'-'.join(parts[2:])}/",
\* kept here as the two path components it is built from.
NoTarget == [ok |-> FALSE, mlsid |-> "", address |-> <<>>]
create_target_url(url, cutoff) ==
    LET parts == DropLast(url, cutoff)
    IN  IF Len(parts) < 2
        THEN NoTarget
        ELSE [ok |-> TRUE, mlsid |-> parts[2], address |-> SubSeq(parts, 3, Len(parts))]

\* extract_params_from_url: path.strip('/').split('/') has the components
\* 'property', the MLS id and the joined address; an empty address leaves only
\* two of them and path_parts[2] raises, which yields (None, None, None).
\* The address is the segments with '-' replaced by ' '.
NoParams == [domain |-> "", mlsid |-> "", address |-> <<>>]
extract_params_from_url(target) ==
    IF target.address = <<>>
    THEN NoParams
    ELSE [domain |-> "www.sellwithduran.com", mlsid |-> target.mlsid,
          address |-> target.address]

\* get_json_data line 275: not domain or not mlsid or not address
ParamsOk(p) == p.domain # "" /\ p.mlsid # "" /\ p.address # <<>>

\* --------------------------------------------------- vendor API and listing
\* A JSON value of a listing: a string, a list of strings, null, or no such key.
Str(s) == [t |-> "str", s |-> s, l |-> <<>>]
List(l) == [t |-> "list", s |-> "", l |-> l]
Null == [t |-> "null", s |-> "", l |-> <<>>]
Absent == [t |-> "absent", s |-> "", l |-> <<>>]

\* config['api_extraction']: output field -> source key of the listing
api_extraction == [photourl |-> "photos", status |-> "status", price |-> "price"]

GoodListing == [photos |-> List(<<"img1.jpg">>), status |-> Str("sold"), price |-> Str("100")]
SparseListing == [photos |-> Absent, status |-> Str("offMarket"), price |-> Absent]
NullPhotoListing == [photos |-> Null, status |-> Str("active"), price |-> Str("100")]
EmptyListing == [photos |-> Absent, status |-> Absent, price |-> Absent]
Listings == {GoodListing, NullPhotoListing}

\* What requests.get and response.json() give get_json_data: a transport error
\* or non-2xx status, a body that is no JSON, a JSON body whose 'listing' is
\* missing or falsy, or a listing.
ApiFailures == {"RequestException", "bad_json", "no_listing"}
ApiResponses ==
    {[kind |-> k, listing |-> EmptyListing] : k \in ApiFailures}
        \cup {[kind |-> "listing", listing |-> l] : l \in Listings}

\* the values of process_url's `extracted`: None, False or a (truthy) listing
PyNone == [tag |-> "None", listing |-> EmptyListing]
PyFalse == [tag |-> "False", listing |-> EmptyListing]
Truthy(e) == e.tag = "listing"

\* get_json_data(api_url, url, key): False without a request when the
\* parameters cannot be extracted, else the outcome of the request
get_json_data(target, resp) ==
    IF ~ParamsOk(extract_params_from_url(target))
    THEN PyFalse
    ELSE IF resp.kind = "listing"
         THEN [tag |-> "listing", listing |-> resp.listing]
         ELSE PyFalse

\* whether get_json_data reaches requests.get
SendsRequest(target) == ParamsOk(extract_params_from_url(target))

\* ---------------------------------------------------------------- parse_data
\* first character of the strings the model uses (data[value][0] on a str)
FirstChar(s) == CASE s = "sold" -> "s" [] s = "active" -> "a" [] s = "100" -> "1"
                  [] s = "offMarket" -> "o" [] OTHER -> ""

statuses(s) == CASE s = "comingSoon" -> "Coming Soon"
                 [] s = "active" -> "Available"
                 [] s = "openHouse" -> "Available"
                 [] s = "justListed" -> "Available"
                 [] s = "priceReduced" -> "Price reduced"
                 [] s = "sold" -> "Sold"
                 [] OTHER -> "Available"

\* mutant: a missing source key raises (data[value] without the `in` test)
parse_field_strict(field, v) ==
    IF v.t = "absent" THEN [raised |-> TRUE, v |-> Str("")]
    ELSE IF field = "photourl"
         THEN CASE v.t = "null" -> [raised |-> TRUE, v |-> Str("")]
                [] v.t = "list" ->
                     [raised |-> FALSE, v |-> IF Len(v.l) > 0 THEN Str(v.l[1]) ELSE Str("")]
                [] OTHER ->
                     [raised |-> FALSE, v |-> IF v.s # "" THEN Str(FirstChar(v.s)) ELSE Str("")]
    ELSE IF field = "status"
         THEN CASE v.t = "list" -> [raised |-> TRUE, v |-> Str("")]
                [] v.t = "str" -> [raised |-> FALSE, v |-> Str(statuses(v.s))]
                [] OTHER -> [raised |-> FALSE, v |-> Str("Available")]
    ELSE [raised |-> FALSE, v |-> v]

\* one field of parse_data's response; raised is a TypeError of len(None) or
\* of hashing a list
parse_field(field, v) ==
    IF v.t = "absent" THEN [raised |-> FALSE, v |-> Str("")]
    ELSE IF field = "photourl"
         THEN CASE v.t = "null" -> [raised |-> TRUE, v |-> Str("")]
                [] v.t = "list" ->
                     [raised |-> FALSE, v |-> IF Len(v.l) > 0 THEN Str(v.l[1]) ELSE Str("")]
                [] OTHER ->
                     [raised |-> FALSE, v |-> IF v.s # "" THEN Str(FirstChar(v.s)) ELSE Str("")]
    ELSE IF field = "status"
         THEN CASE v.t = "list" -> [raised |-> TRUE, v |-> Str("")]
                [] v.t = "str" -> [raised |-> FALSE, v |-> Str(statuses(v.s))]
                [] OTHER -> [raised |-> FALSE, v |-> Str("Available")]
    ELSE [raised |-> FALSE, v |-> v]

parse_data(data, toExtract) ==
    LET per == [f \in DOMAIN toExtract |-> parse_field(f, data[toExtract[f]])]
    IN  [raised |-> \E f \in DOMAIN toExtract : per[f].raised,
         response |-> [f \in DOMAIN toExtract |-> per[f].v]]

\* ----------------------------------------------------------------- post_data
\* What requests.post gives: a response with a status code, or an exception
\* (ConnectionError, Timeout) that post_data does not catch.
Statuses == {200, 201, 500}
PostOutcomes == {[raised |-> FALSE, status |-> s] : s \in Statuses}
                    \cup {[raised |-> TRUE, status |-> 0]}

\* mutant: every 2xx status counts as delivered
post_data_2xx(resp) == resp.status >= 200 /\ resp.status < 300

\* post_data returns True on status 200 and falls off its end (None) otherwise
post_data(resp) == resp.status = HTTP_OK

\* --------------------------------------------------------------- sitemap file
\* A url element of the sitemap; complete is FALSE when loc or lastmod is
\* missing, so that url.find(...) is None.
Entries == [loc : Urls, lastmod : Dates, complete : {TRUE}]
               \cup {[loc |-> UrlBad, lastmod |-> NoChild, complete |-> FALSE]}

\* What load_sitemap writes to the local file: a document that is not
\* well-formed XML, or a urlset of at most MaxSitemap url elements.
NoContent == [xml |-> FALSE, entries |-> <<>>]
Contents == {NoContent} \cup {[xml |-> TRUE, entries |-> s] : s \in SeqUpTo(Entries, MaxSitemap)}

\* ------------------------------------------------------------------ CSV logs
\* A log file: missing, or the rows csv.reader yields from it.
NoLog == [exists |-> FALSE, rows |-> <<>>]

\* csv.writer.writerow([url]) then csv.reader: the row with the one field url
Row(url) == <<url>>

\* {row[0] for row in reader}; a missing file is the empty set
LogSet(log) == IF log.exists THEN {log.rows[k][1] : k \in 1..Len(log.rows)} ELSE {}

\* mutant: the log is not consulted
filter_processed_urls_none(us, log) == us

\* [url for url in urls if url not in processed_urls]
filter_processed_urls(us, log) == SelectSeq(us, LAMBDA u : u \notin LogSet(log))

\* [url for url, lastmod in urls if lastmod == date], date a single string
filter_urls_by_date(us, d) ==
    LET keep == SelectSeq(us, LAMBDA e : e.lastmod = d)
    IN  [k \in 1..Len(keep) |-> keep[k].loc]

\* Python's s[:n]
SliceTo(s, n) ==
    IF n >= 0 THEN SubSeq(s, 1, IF n < Len(s) THEN n ELSE Len(s))
    ELSE DropLast(s, -n)

\* the names `from utils import *` binds in bot.py besides its own definitions
UtilsNames == {"load_config", "load_sitemap", "parse_sitemap", "filter_urls_by_date",
               "save_urls_to_file", "remove_url_from_file", "filter_processed_urls",
               "create_target_url", "create_target_urls", "page_has_loaded",
               "extract_data", "extract_params_from_url", "get_json_data",
               "parse_data", "post_data", "process_url", "cleanup"}

\* bot.py:45  ThreadPoolExecutor() runs at most min(32, cpu_count + 4) tasks
\* at once, five on a single-core machine
max_workers == 5
\* largest config['max_scrap'] of a run
MaxScrap == 2

\* --------------------------------------------------------------------- state
VARIABLES
    runs,            \* invocations of process_sitemap so far
    runpc,           \* where process_sitemap is: idle, start, loaded, parsed,
                     \* filtered, batched, fanout, and how it ended: done
                     \* (returned after cleanup), aborted (returned early),
                     \* crashed (raised)
    error,           \* what ended the run early: "download", "decompress",
                     \* "parse" (ParseError), "empty" (no url element), an
                     \* exception that escaped ("AttributeError", "NameError"),
                     \* or "none"
    max_scrap,       \* config['max_scrap'] of the run
    sitemap_exists,  \* the local sitemap file exists
    sitemap_content, \* what load_sitemap wrote, until parse_sitemap has read it
    urls,            \* parse_sitemap's result, until the filters have read it
    filter_by_date,  \* process_sitemap's argument
    date,            \* process_sitemap's argument, as the list of line 27
    filtered_urls,   \* filtered_urls of lines 28..30
    batch,           \* filtered_urls of line 38, the list mapped over the pool
    logs,            \* the three log files
    logs0,           \* the log files when the run started
    w,               \* the process_url call of each element of the batch
    call             \* a call of a utils.py function from outside a run

vars == <<runs, runpc, error, max_scrap, sitemap_exists, sitemap_content, urls,
          filter_by_date, date, filtered_urls, batch, logs, logs0, w, call>>

\* a process_url call that the pool has not started
Queued == [pc |-> "queued", current_cutoff |-> 0, extracted |-> PyNone,
           file_path |-> "", ret |-> "None",
           api |-> 0, posts |-> 0, status |-> 0, ok_cutoff |-> 0,
           io_error |-> FALSE, wrote |-> <<>>]

Workers == DOMAIN w
Finished(i) == w[i].pc \in {"done", "raised"}
Running(i) == w[i].pc \notin {"queued", "done", "raised"}

\* no utility call
NoCall == [fn |-> "none", pc |-> "none", n |-> 0, url |-> <<>>, urls |-> <<>>,
           data |-> EmptyListing, prev |-> <<>>, out |-> <<>>,
           response |-> [f \in DOMAIN api_extraction |-> Str("")],
           io_error |-> FALSE, file0 |-> NoLog]

\* the state of the program outside the log files
Idle ==
    /\ runs = 0
    /\ runpc = "idle"
    /\ error = "none"
    /\ max_scrap = 0
    /\ sitemap_exists = FALSE
    /\ sitemap_content = NoContent
    /\ urls = <<>>
    /\ filter_by_date = FALSE
    /\ date = <<>>
    /\ filtered_urls = <<>>
    /\ batch = <<>>
    /\ w = <<>>

Init ==
    /\ Idle
    /\ call = NoCall
    /\ logs = [n \in LogNames |-> NoLog]
    /\ logs0 = [n \in LogNames |-> NoLog]

\* -------------------------------------------------- process_sitemap, bot.py
\* the values of the date argument: None (today), one date string, a list
DateArgs == {[kind |-> "None", v |-> <<>>]}
                \cup {[kind |-> "str", v |-> <<d>>] : d \in Dates}
                \cup {[kind |-> "list", v |-> <<"2023-05-01", "2023-05-02">>]}

\* lines 11..12 and 26..27: a falsy date is today's, a string becomes a list
NormalDate(arg) == IF arg.v = <<>> THEN <<Today>> ELSE arg.v

\* A new invocation; load_config (line 9) reads max_scrap.
StartRun ==
    /\ runpc \in {"idle", "done", "aborted", "crashed"}
    /\ runs < MaxRuns
    /\ runs' = runs + 1
    /\ runpc' = "start"
    /\ error' = "none"
    /\ \E m \in 1..MaxScrap : max_scrap' = m
    /\ urls' = <<>>
    /\ filter_by_date' = FALSE
    /\ date' = <<>>
    /\ filtered_urls' = <<>>
    /\ batch' = <<>>
    /\ w' = <<>>
    /\ logs0' = logs
    /\ UNCHANGED <<call, sitemap_exists, sitemap_content, logs>>

\* load_sitemap fails on the download (lines 39..44): nothing is written
LoadSitemapNetworkError ==
    /\ runpc = "start"
    /\ runpc' = "aborted"
    /\ error' = "download"
    /\ UNCHANGED <<call, runs, max_scrap, sitemap_exists, sitemap_content, urls,
                   filter_by_date, date, filtered_urls, batch, logs, logs0, w>>

\* load_sitemap fails while decompressing (lines 46..54); open(output_path,
\* 'wb') may have created or emptied the file before read() raised
LoadSitemapDecompressError ==
    /\ runpc = "start"
    /\ runpc' = "aborted"
    /\ error' = "decompress"
    /\ \E opened \in BOOLEAN : sitemap_exists' = (sitemap_exists \/ opened)
    /\ UNCHANGED <<call, runs, max_scrap, sitemap_content, urls,
                   filter_by_date, date, filtered_urls, batch, logs, logs0, w>>

\* load_sitemap succeeds: the decompressed bytes are in the local file
LoadSitemapOk ==
    /\ runpc = "start"
    /\ runpc' = "loaded"
    /\ sitemap_exists' = TRUE
    /\ \E c \in Contents : sitemap_content' = c
    /\ UNCHANGED <<call, runs, error, max_scrap, urls,
                   filter_by_date, date, filtered_urls, batch, logs, logs0, w>>

\* mutant: process_sitemap goes on after a failed or empty parse
ParseSitemap_continue ==
    /\ runpc = "loaded"
    /\ LET c == sitemap_content
       IN  /\ runpc' = "parsed"
           /\ urls' = SelectSeq(c.entries, LAMBDA e : e.complete)
           /\ error' = (IF ~c.xml THEN "parse" ELSE IF c.entries = <<>> THEN "empty" ELSE "none")
    /\ sitemap_content' = NoContent
    /\ UNCHANGED <<call, runs, max_scrap, sitemap_exists,
                   filter_by_date, date, filtered_urls, batch, logs, logs0, w>>

\* parse_sitemap (utils.py:59..83) and lines 18..21: ParseError gives [], and an
\* empty list aborts; a url element without loc or lastmod raises
\* AttributeError out of the list comprehension of line 81.
ParseSitemap ==
    /\ runpc = "loaded"
    /\ LET c == sitemap_content
           broken == \E k \in 1..Len(c.entries) : ~c.entries[k].complete
       IN  IF ~c.xml \/ c.entries = <<>>
           THEN /\ runpc' = "aborted"
                /\ error' = (IF c.xml THEN "empty" ELSE "parse")
                /\ UNCHANGED urls
           ELSE IF broken
                THEN runpc' = "crashed" /\ error' = "AttributeError" /\ UNCHANGED urls
                ELSE runpc' = "parsed" /\ urls' = c.entries /\ UNCHANGED error
    /\ sitemap_content' = NoContent
    /\ UNCHANGED <<call, runs, max_scrap, sitemap_exists,
                   filter_by_date, date, filtered_urls, batch, logs, logs0, w>>

\* lines 25..28: with filter_by_date the call of filter_urls_by_dates raises
\* NameError, utils.py defining no such name
FilterByDate ==
    /\ runpc = "parsed"
    /\ "filter_urls_by_dates" \notin UtilsNames
    /\ \E arg \in DateArgs : date' = NormalDate(arg)
    /\ filter_by_date' = TRUE
    /\ runpc' = "crashed"
    /\ error' = "NameError"
    /\ UNCHANGED <<call, runs, max_scrap, sitemap_exists, sitemap_content, urls,
                   filtered_urls, batch, logs, logs0, w>>

\* lines 29..30: without filter_by_date every URL passes
NoDateFilter ==
    /\ runpc = "parsed"
    /\ filter_by_date' = FALSE
    /\ filtered_urls' = [k \in 1..Len(urls) |-> urls[k].loc]
    /\ runpc' = "filtered"
    /\ UNCHANGED <<call, runs, error, max_scrap, sitemap_exists, sitemap_content, urls,
                   date, batch, logs, logs0, w>>

\* mutant: only the processed log is consulted
MakeBatch_processed_only(us) ==
    SliceTo(filter_processed_urls(us, logs["processed_urls"]), max_scrap)

\* mutant: the filter of line 36 is active too
MakeBatch_unsaved(us) ==
    SliceTo(filter_processed_urls(
                filter_processed_urls(
                    filter_processed_urls(us, logs["processed_urls"]),
                    logs["unprocessed_urls"]),
                logs["unsaved_urls"]),
            max_scrap)

\* lines 34..38: the two log filters and the truncation
MakeBatch(us) ==
    SliceTo(filter_processed_urls(
                filter_processed_urls(us, logs["processed_urls"]),
                logs["unprocessed_urls"]),
            max_scrap)

\* lines 34..38: the batch of the run
FilterLogs ==
    /\ runpc = "filtered"
    /\ batch' = MakeBatch(filtered_urls)
    /\ runpc' = "batched"
    /\ UNCHANGED <<call, runs, error, max_scrap, sitemap_exists, sitemap_content, urls,
                   filter_by_date, date, filtered_urls, logs, logs0, w>>

\* lines 45..46: executor.map submits one process_url per element of the batch
Dispatch ==
    /\ runpc = "batched"
    /\ w' = [i \in 1..Len(batch) |-> Queued]
    /\ urls' = <<>>
    /\ filtered_urls' = <<>>
    /\ runpc' = "fanout"
    /\ UNCHANGED <<call, runs, error, max_scrap, sitemap_exists, sitemap_content,
                   filter_by_date, date, batch, logs, logs0>>

\* mutant: cleanup does not wait for the calls that are still running
Cleanup_early ==
    /\ runpc = "fanout"
    /\ sitemap_exists' = FALSE
    /\ runpc' = "done"
    /\ UNCHANGED <<call, runs, error, max_scrap, sitemap_content, urls,
                   filter_by_date, date, filtered_urls, batch, logs, logs0, w>>

\* lines 46..52: leaving the with block waits for every submitted call; no
\* result is read, so an exception of a call is never re-raised; cleanup
\* removes the sitemap file
Cleanup ==
    /\ runpc = "fanout"
    /\ \A i \in Workers : Finished(i)
    /\ sitemap_exists' = FALSE
    /\ runpc' = "done"
    /\ UNCHANGED <<call, runs, error, max_scrap, sitemap_content, urls,
                   filter_by_date, date, filtered_urls, batch, logs, logs0, w>>

\* ------------------------------------------------------ process_url, utils.py
\* process_url's save_urls_to_file(config[name], [url]) followed by its return
GoSave(i, name, ret) ==
    [w[i] EXCEPT !.pc = "save", !.file_path = name, !.ret = ret]

WorkerVarsUnchanged ==
    UNCHANGED <<call, runs, runpc, error, max_scrap, sitemap_exists, sitemap_content, urls,
                filter_by_date, date, filtered_urls, batch, logs0>>

\* a pool thread takes the call: lines 368..369
Begin(i) ==
    /\ w[i].pc = "queued"
    /\ Cardinality({j \in Workers : Running(j)}) < max_workers
    /\ w' = [w EXCEPT ![i] = [@ EXCEPT !.pc = "loop", !.current_cutoff = start_cutoff,
                                       !.extracted = PyNone]]
    /\ UNCHANGED logs
    /\ WorkerVarsUnchanged

\* mutant: the loop goes one cutoff further
LoopCond_wide(i) == w[i].current_cutoff <= max_cutoff + 1 /\ ~Truthy(w[i].extracted)

\* line 371, the loop condition
LoopCond(i) == w[i].current_cutoff <= max_cutoff /\ ~Truthy(w[i].extracted)

\* mutant: a failed resolution is retried at the next cutoff
ResolveFails_retry(i) ==
    /\ w[i].pc = "loop"
    /\ LoopCond(i)
    /\ ~create_target_url(batch[i], w[i].current_cutoff).ok
    /\ w' = [w EXCEPT ![i] = [@ EXCEPT !.current_cutoff = @ + 1]]
    /\ UNCHANGED logs
    /\ WorkerVarsUnchanged

\* lines 373..377: an iteration whose create_target_url returns False
ResolveFails(i) ==
    /\ w[i].pc = "loop"
    /\ LoopCond(i)
    /\ ~create_target_url(batch[i], w[i].current_cutoff).ok
    /\ w' = [w EXCEPT ![i] = GoSave(i, "unprocessed_urls", "False")]
    /\ UNCHANGED logs
    /\ WorkerVarsUnchanged

\* mutant: every failed extraction is logged Unprocessed before the retry
Extract_logging(i) ==
    /\ w[i].pc = "loop"
    /\ LoopCond(i)
    /\ LET new_url == create_target_url(batch[i], w[i].current_cutoff)
       IN  /\ new_url.ok
           /\ \E resp \in ApiResponses :
                LET e == get_json_data(new_url, resp)
                IN  /\ w' = [w EXCEPT ![i] =
                            [@ EXCEPT !.extracted = e,
                                      !.api = @ + (IF SendsRequest(new_url) THEN 1 ELSE 0),
                                      !.ok_cutoff = IF Truthy(e) THEN w[i].current_cutoff ELSE @,
                                      !.wrote = IF Truthy(e) THEN @
                                                ELSE Append(@, "unprocessed_urls"),
                                      !.current_cutoff = @ + 1]]
                    /\ logs' = IF Truthy(e) THEN logs
                               ELSE [logs EXCEPT !["unprocessed_urls"] =
                                        [exists |-> TRUE, rows |-> Append(@.rows, Row(batch[i]))]]
    /\ WorkerVarsUnchanged

\* lines 373..379: an iteration that resolves and calls get_json_data
Extract(i) ==
    /\ w[i].pc = "loop"
    /\ LoopCond(i)
    /\ LET new_url == create_target_url(batch[i], w[i].current_cutoff)
       IN  /\ new_url.ok
           /\ \E resp \in ApiResponses :
                LET e == get_json_data(new_url, resp)
                IN  w' = [w EXCEPT ![i] =
                            [@ EXCEPT !.extracted = e,
                                      !.api = @ + (IF SendsRequest(new_url) THEN 1 ELSE 0),
                                      !.ok_cutoff = IF Truthy(e) THEN w[i].current_cutoff ELSE @,
                                      !.current_cutoff = @ + 1]]
    /\ UNCHANGED logs
    /\ WorkerVarsUnchanged

\* lines 381..384: the loop ended without a listing
Exhausted(i) ==
    /\ w[i].pc = "loop"
    /\ ~LoopCond(i)
    /\ ~Truthy(w[i].extracted)
    /\ w' = [w EXCEPT ![i] = GoSave(i, "unprocessed_urls", "False")]
    /\ UNCHANGED logs
    /\ WorkerVarsUnchanged

\* line 386: parse_data raises, and so does process_url
MapRaises(i) ==
    /\ w[i].pc = "loop"
    /\ ~LoopCond(i)
    /\ Truthy(w[i].extracted)
    /\ parse_data(w[i].extracted.listing, api_extraction).raised
    /\ w' = [w EXCEPT ![i] = [@ EXCEPT !.pc = "raised"]]
    /\ UNCHANGED logs
    /\ WorkerVarsUnchanged

\* lines 386..396: parse_data, then post_data; requests.post raising ends
\* process_url with that exception
Deliver(i) ==
    /\ w[i].pc = "loop"
    /\ ~LoopCond(i)
    /\ Truthy(w[i].extracted)
    /\ ~parse_data(w[i].extracted.listing, api_extraction).raised
    /\ \E resp \in PostOutcomes :
         LET sent == [w[i] EXCEPT !.posts = @ + 1, !.status = resp.status]
         IN  w' = [w EXCEPT ![i] =
                 IF resp.raised
                 THEN [sent EXCEPT !.pc = "raised"]
                 ELSE IF post_data(resp)
                      THEN [sent EXCEPT !.pc = "save", !.file_path = "processed_urls",
                                        !.ret = "True"]
                      ELSE [sent EXCEPT !.pc = "save", !.file_path = "unsaved_urls",
                                        !.ret = "False"]]
    /\ UNCHANGED logs
    /\ WorkerVarsUnchanged

\* save_urls_to_file line 110: open(file_path, 'a') creates a missing file;
\* an OSError is caught at line 114 and process_url returns
SaveOpen(i) ==
    /\ w[i].pc = "save"
    /\ \E ok \in BOOLEAN :
         IF ok
         THEN /\ logs' = [logs EXCEPT ![w[i].file_path].exists = TRUE]
              /\ w' = [w EXCEPT ![i] = [@ EXCEPT !.pc = "writing"]]
         ELSE /\ logs' = logs
              /\ w' = [w EXCEPT ![i] = [@ EXCEPT !.pc = "done", !.io_error = TRUE]]
    /\ WorkerVarsUnchanged

\* lines 111..113 and the end of the with block: the row is buffered and
\* reaches the file when it is flushed and closed; an OSError there is caught
\* at line 114 too
SaveClose(i) ==
    /\ w[i].pc = "writing"
    /\ \E ok \in BOOLEAN :
         IF ok
         THEN /\ logs' = [logs EXCEPT ![w[i].file_path].rows = Append(@, Row(batch[i]))]
              /\ w' = [w EXCEPT ![i] = [@ EXCEPT !.pc = "done",
                                                 !.wrote = Append(@, w[i].file_path)]]
         ELSE /\ logs' = logs
              /\ w' = [w EXCEPT ![i] = [@ EXCEPT !.pc = "done", !.io_error = TRUE]]
    /\ WorkerVarsUnchanged

process_url(i) ==
    \/ Begin(i)
    \/ ResolveFails(i)
    \/ Extract(i)
    \/ Exhausted(i)
    \/ MapRaises(i)
    \/ Deliver(i)
    \/ SaveOpen(i)
    \/ SaveClose(i)

process_sitemap ==
    \/ StartRun
    \/ LoadSitemapNetworkError
    \/ LoadSitemapDecompressError
    \/ LoadSitemapOk
    \/ ParseSitemap
    \/ FilterByDate
    \/ NoDateFilter
    \/ FilterLogs
    \/ Dispatch
    \/ Cleanup

Next ==
    \/ process_sitemap
    \/ \E i \in Workers : runpc = "fanout" /\ process_url(i)

Spec == Init /\ [][Next]_vars

\* One invocation of the program (__main__ calls process_sitemap once) in a
\* fresh working directory: the steps of Next that do not start a second run.
OneRun ==
    \/ process_sitemap /\ runs' <= 1
    \/ \E i \in Workers : runpc = "fanout" /\ process_url(i)

SpecOneRun == Init /\ [][OneRun]_vars

\* The same under the scheduling of bot.py:45..52: the pool runs every
\* submitted call to its end (each network call returns or raises), and the
\* main thread, past the with block, calls cleanup.
SpecOneRunFair ==
    /\ SpecOneRun
    /\ WF_vars(Cleanup)
    /\ \A i \in 1..MaxScrap :
           WF_vars(runpc = "fanout" /\ i \in Workers /\ process_url(i))

\* ------------------------------------------- utils.py functions called alone
\* largest number of rows of the log file a utility call works on
MaxRows == 3
\* largest number of URLs handed to filter_processed_urls
MaxUrls == 3

\* the log file the call is given (its file_path argument)
UtilFile == "processed_urls"

\* a log file as save_urls_to_file leaves it: missing, or one row per URL
LogFiles ==
    {NoLog} \cup {[exists |-> TRUE, rows |-> r] :
                      r \in SeqUpTo({Row(u) : u \in Urls}, MaxRows)}

\* the records handed to parse_data: every source key missing, null or set
Records ==
    [photos : {Absent, Null, List(<<>>), List(<<"img1.jpg">>)},
     status : {Absent, Str("sold"), Str("offMarket"), List(<<"sold">>)},
     price : {Absent, Null, Str("100")}]

\* the calls: remove_url_from_file(file, url), filter_processed_urls(urls,
\* file) and parse_data(data, config['api_extraction'])
Calls ==
    {[NoCall EXCEPT !.fn = "remove_url_from_file", !.pc = "called", !.url = u] :
         u \in Urls}
    \cup {[NoCall EXCEPT !.fn = "filter_processed_urls", !.pc = "called", !.urls = us] :
              us \in SeqUpTo(Urls, MaxUrls)}
    \cup {[NoCall EXCEPT !.fn = "parse_data", !.pc = "called", !.data = d] :
              d \in Records}

\* no run of process_sitemap; a log file and a pending call
InitUtils ==
    /\ Idle
    /\ logs0 = [n \in LogNames |-> NoLog]
    /\ \E f \in LogFiles : logs = [n \in LogNames |-> IF n = UtilFile THEN f ELSE NoLog]
    /\ call \in Calls

UtilVarsUnchanged ==
    UNCHANGED <<runs, runpc, error, max_scrap, sitemap_exists, sitemap_content, urls,
                filter_by_date, date, filtered_urls, batch, logs0, w>>

\* [row[0] for row in reader]; a missing file gives []
ReadRows(log) == [k \in 1..Len(log.rows) |-> log.rows[k][1]]

\* list.remove(x) on a list that holds x: the first occurrence goes
ListRemove(l, x) ==
    LET k == CHOOSE k \in 1..Len(l) : l[k] = x /\ \A j \in 1..(k - 1) : l[j] # x
    IN  SubSeq(l, 1, k - 1) \o SubSeq(l, k + 1, Len(l))

\* the file after writerow was called for the first m elements of l
Written(l, m) == [exists |-> TRUE, rows |-> [k \in 1..m |-> Row(l[k])]]

\* mutant: an absent URL is tolerated and the file rewritten as it was
remove_url_from_file_tolerant ==
    /\ call.fn = "remove_url_from_file"
    /\ call.pc = "called"
    /\ LET file == logs[UtilFile]
           processed_urls == ReadRows(file)
           present == \E k \in 1..Len(processed_urls) : processed_urls[k] = call.url
           rest == IF present THEN ListRemove(processed_urls, call.url) ELSE processed_urls
       IN  \E io \in {"ok", "open", "write"} :
             /\ call' = [call EXCEPT !.pc = "returned", !.out = rest, !.file0 = file,
                                     !.io_error = (io # "ok")]
             /\ CASE io = "ok" -> logs' = [logs EXCEPT ![UtilFile] = Written(rest, Len(rest))]
                  [] io = "open" -> logs' = logs
                  [] io = "write" ->
                       \E m \in 0..Len(rest) :
                           logs' = [logs EXCEPT ![UtilFile] = Written(rest, m)]
    /\ UtilVarsUnchanged

\* remove_url_from_file (utils.py:117..141): the rows are read (none when the
\* file is missing), list.remove raises ValueError when the URL is not among
\* them, and the file is rewritten; open(file_path, 'w') empties the file,
\* and an OSError of open or of a write is caught at line 140, leaving the
\* file as it was or with the rows written so far.
remove_url_from_file ==
    /\ call.fn = "remove_url_from_file"
    /\ call.pc = "called"
    /\ LET file == logs[UtilFile]
           processed_urls == ReadRows(file)
           present == \E k \in 1..Len(processed_urls) : processed_urls[k] = call.url
       IN  IF ~present
           THEN /\ call' = [call EXCEPT !.pc = "raised", !.file0 = file]
                /\ logs' = logs
           ELSE LET rest == ListRemove(processed_urls, call.url)
                IN  \E io \in {"ok", "open", "write"} :
                      /\ call' = [call EXCEPT !.pc = "returned", !.out = rest,
                                              !.file0 = file, !.io_error = (io # "ok")]
                      /\ CASE io = "ok" ->
                               logs' = [logs EXCEPT ![UtilFile] = Written(rest, Len(rest))]
                           [] io = "open" -> logs' = logs
                           [] io = "write" ->
                               \E m \in 0..Len(rest) :
                                   logs' = [logs EXCEPT ![UtilFile] = Written(rest, m)]
    /\ UtilVarsUnchanged

\* filter_processed_urls(urls, file_path), and once more on its own result
CallFilterProcessedUrls ==
    /\ call.fn = "filter_processed_urls"
    /\ call.n < 2
    /\ LET arg == IF call.n = 0 THEN call.urls ELSE call.out
       IN  call' = [call EXCEPT !.pc = "returned", !.n = @ + 1, !.prev = call.out,
                               !.out = filter_processed_urls(arg, logs[UtilFile]),
                               !.file0 = logs[UtilFile]]
    /\ UNCHANGED logs
    /\ UtilVarsUnchanged

\* parse_data(data, config['api_extraction'])
CallParseData ==
    /\ call.fn = "parse_data"
    /\ call.pc = "called"
    /\ LET r == parse_data(call.data, api_extraction)
       IN  call' = [call EXCEPT !.pc = IF r.raised THEN "raised" ELSE "returned",
                               !.response = r.response]
    /\ UNCHANGED logs
    /\ UtilVarsUnchanged

NextUtils ==
    \/ remove_url_from_file
    \/ CallFilterProcessedUrls
    \/ CallParseData

SpecUtils == InitUtils /\ [][NextUtils]_vars

TypeOK ==
    /\ runs \in 0..MaxRuns
    /\ runpc \in {"idle", "start", "loaded", "parsed", "filtered", "batched", "fanout",
                  "done", "aborted", "crashed"}
    /\ Len(batch) <= max_scrap
    /\ DOMAIN w \in {{}, 1..Len(batch)}

\* ===================================================================== claims
\* the logs worker i appended its URL to in this run
WroteTo(i) == {w[i].wrote[k] : k \in 1..Len(w[i].wrote)}

\* requests.post raised: a POST was sent and no status came back
TransportFailure(i) == w[i].posts > 0 /\ w[i].status = 0

\* post_data did not succeed: a status other than 200, or no response at all
DeliveryFailed(i) == w[i].posts > 0 /\ w[i].status # HTTP_OK

\* C1: every dispatched process_url terminates having appended exactly one
\* outcome entry for its URL, on every path; stated here for the path of a
\* delivery that fails on the transport: the call that ended there has
\* appended its URL to exactly one log.
C1_TransportFailureRecorded ==
    \A i \in Workers :
        (Finished(i) /\ TransportFailure(i)) => Len(w[i].wrote) = 1

\* C2: within one run no URL is appended to more than one of the three logs,
\* also when the sitemap lists the URL more than once.
C2_OneLogPerUrl ==
    \A u \in Urls :
        Cardinality(UNION {WroteTo(i) : i \in {j \in Workers : batch[j] = u}}) <= 1

\* C3: no two workers are at the same time between opening and closing the
\* same log file in save_urls_to_file.
C3_AppendMutex ==
    \A i, j \in Workers :
        (i # j /\ w[i].pc = "writing" /\ w[j].pc = "writing")
            => w[i].file_path # w[j].file_path

\* s is a prefix of t
IsPrefix(s, t) == Len(s) <= Len(t) /\ SubSeq(t, 1, Len(s)) = s

\* the URLs a log held when the run started
Logged0(name) == LogSet(logs0[name])

\* C4: a URL that the processed or the unprocessed log holds when a run
\* starts is never dispatched in that run; the logs only grow, so a URL
\* appended by one run is in the log at the start of every later run.
C4_LoggedNeverDispatched ==
    /\ \A k \in 1..Len(batch) :
           batch[k] \notin Logged0("processed_urls") \cup Logged0("unprocessed_urls")
    /\ \A n \in LogNames :
           /\ logs0[n].exists => logs[n].exists
           /\ IsPrefix(logs0[n].rows, logs[n].rows)

\* a later run whose sitemap lists a URL of the processed log and a URL of
\* the unprocessed log: neither is in the batch
C4_Witness ==
    /\ runs = 2
    /\ runpc = "batched"
    /\ \E k \in 1..Len(filtered_urls) : filtered_urls[k] \in Logged0("processed_urls")
    /\ \E k \in 1..Len(filtered_urls) : filtered_urls[k] \in Logged0("unprocessed_urls")
    /\ batch = <<>>

\* C5: when extraction succeeded and delivery failed, the call ends with its
\* URL appended to the unsaved log and to no other log (calls whose append
\* hit an I/O error set aside).
C5_DeliveryFailureUnsaved ==
    \A i \in Workers :
        (Finished(i) /\ DeliveryFailed(i) /\ ~w[i].io_error)
            => w[i].wrote = <<"unsaved_urls">>

\* the first success of the extraction was at cutoff 3..6 and delivery
\* returned 200
RetriedAndDelivered(i) ==
    /\ Finished(i)
    /\ w[i].ok_cutoff \in start_cutoff..max_cutoff
    /\ w[i].status = HTTP_OK

\* C6 as stated: such a call has appended exactly one Processed entry and
\* nothing else.
C6_ExactlyOneProcessed ==
    \A i \in Workers : RetriedAndDelivered(i) => w[i].wrote = <<"processed_urls">>

\* C6 as amended: such a call has appended exactly one Processed entry and
\* nothing else, unless the append hit an I/O error, and then it has appended
\* nothing at all; the failed cutoffs leave no entry in either case.
C6_OneProcessedUnlessIOError ==
    \A i \in Workers :
        /\ RetriedAndDelivered(i) =>
               IF w[i].io_error THEN w[i].wrote = <<>>
               ELSE w[i].wrote = <<"processed_urls">>
        /\ (w[i].ok_cutoff > 0 /\ ~Finished(i)) => w[i].wrote = <<>>

\* a call that failed at cutoff 3, succeeded at cutoff 4 and was logged Processed
C6_Witness ==
    \E i \in Workers :
        /\ RetriedAndDelivered(i)
        /\ w[i].ok_cutoff = start_cutoff + 1
        /\ w[i].api = 2
        /\ w[i].wrote = <<"processed_urls">>

\* C7: when the download, the decompression or the parse of the sitemap
\* fails, the run ends with no process_url dispatched (hence no vendor-API
\* and no webform call) and with the three logs as they were.
C7_AbortBeforeFanout ==
    error \in {"download", "decompress", "parse", "empty", "AttributeError"} =>
        /\ runpc \in {"aborted", "crashed"}
        /\ batch = <<>>
        /\ w = <<>>
        /\ logs = logs0

\* a second run that aborts on a sitemap that is no XML, the logs non-empty
C7_Witness ==
    /\ runs = 2
    /\ runpc = "aborted"
    /\ error = "parse"
    /\ logs["processed_urls"].rows # <<>>

\* what a finished call has appended, as its own pipeline determines it
OwnOutcome(i) ==
    IF w[i].pc = "raised" \/ w[i].io_error THEN <<>>
    ELSE IF ~Truthy(w[i].extracted) THEN <<"unprocessed_urls">>
    ELSE IF w[i].status = HTTP_OK THEN <<"processed_urls">>
    ELSE <<"unsaved_urls">>

\* C8: after fan-out has started no failure of a call ends the run or touches
\* a sibling: the run leaves fan-out only through cleanup, and only when
\* every call has ended; a step of one call changes no other call; a call
\* that has not ended can always take its next step; and what a call has
\* appended when it ends is what its own pipeline determines.
C8_FailuresIsolated ==
    /\ [](\A i \in Workers :
             /\ (runpc = "fanout" /\ ~Finished(i)) => ENABLED process_url(i)
             /\ Finished(i) => w[i].wrote = OwnOutcome(i))
    /\ [][runpc = "fanout" =>
             /\ runpc' \in {"fanout", "done"}
             /\ runpc' = "done" => \A i \in Workers : Finished(i)
             /\ runpc' = "fanout" =>
                    \A i, j \in Workers : (i # j /\ w'[i] # w[i]) => w'[j] = w[j]]_vars

\* a run that completed although one call raised, the sibling logged Processed
C8_Witness ==
    /\ runpc = "done"
    /\ \E i, j \in Workers :
           /\ w[i].pc = "raised"
           /\ w[j].pc = "done"
           /\ w[j].wrote = <<"processed_urls">>

\* lastmod equals one of the requested dates
MatchesDate(e) == \E k \in 1..Len(date) : date[k] = e.lastmod

\* the loc of every element of a list of sitemap entries
Locs(es) == [k \in 1..Len(es) |-> es[k].loc]

\* C10: with date filtering enabled process_sitemap keeps exactly the
\* entries whose lastmod equals one of the requested dates, whether the date
\* argument was one string or a list.
C10_DateFilterExact ==
    (filter_by_date /\ runpc \in {"filtered", "batched", "crashed"}) =>
        filtered_urls = Locs(SelectSeq(urls, MatchesDate))

\* the entries the date filter and the two log filters are to keep
Eligible(e) ==
    /\ filter_by_date => MatchesDate(e)
    /\ e.loc \notin Logged0("processed_urls") \cup Logged0("unprocessed_urls")

\* C9: the batch handed to the pool is the first max_scrap elements, in
\* sitemap order, of the date-filtered and log-filtered URL list.
C9_BatchIsCappedPrefix ==
    (runpc = "batched" \/ (runpc = "crashed" /\ error = "NameError")) =>
        batch = SliceTo(Locs(SelectSeq(urls, Eligible)), max_scrap)

\* ------------------------------------------------------------ utility calls
\* l without its k-th element
Without(l, k) == SubSeq(l, 1, k - 1) \o SubSeq(l, k + 1, Len(l))

\* l is rows with exactly one occurrence of url taken out, the rest in order
OneRemoved(l, rows, url) ==
    \E k \in 1..Len(rows) : rows[k] = url /\ l = Without(rows, k)

\* the URL of the call is among the rows the file held before the call
WasPresent == \E k \in 1..Len(call.file0.rows) : call.file0.rows[k] = Row(call.url)

RemoveEnded == call.fn = "remove_url_from_file" /\ call.pc # "called"

\* C11 as stated: remove_url_from_file takes exactly one occurrence of the URL
\* out of the file and keeps the other entries in order; when the URL is
\* absent (or the file is missing) it raises and the file is as it was.
C11_RemoveExactlyOne ==
    RemoveEnded =>
        IF WasPresent
        THEN /\ call.pc = "returned"
             /\ logs[UtilFile].exists
             /\ OneRemoved(ReadRows(logs[UtilFile]), ReadRows(call.file0), call.url)
        ELSE call.pc = "raised" /\ logs[UtilFile] = call.file0

\* C11 as amended: the same, unless the rewrite hits an I/O error; then the
\* call returns normally as well and the file is as it was before the call
\* or holds the first rows of the rewritten list.
C11_RemoveExactlyOneUnlessIOError ==
    RemoveEnded =>
        IF WasPresent
        THEN /\ call.pc = "returned"
             /\ OneRemoved(call.out, ReadRows(call.file0), call.url)
             /\ IF call.io_error
                THEN \/ logs[UtilFile] = call.file0
                     \/ /\ logs[UtilFile].exists
                        /\ IsPrefix(ReadRows(logs[UtilFile]), call.out)
                ELSE /\ logs[UtilFile].exists
                     /\ ReadRows(logs[UtilFile]) = call.out
        ELSE call.pc = "raised" /\ ~call.io_error /\ logs[UtilFile] = call.file0

\* a URL held twice is removed once and the other rows keep their order
C11_Witness ==
    /\ RemoveEnded
    /\ call.pc = "returned"
    /\ ~call.io_error
    /\ ReadRows(call.file0) = <<UrlLong, UrlMid, UrlLong>>
    /\ call.url = UrlLong
    /\ ReadRows(logs[UtilFile]) = <<UrlMid, UrlLong>>

\* C12: a url element without loc or lastmod does not crash the parse:
\* parse_sitemap returns (skipping the entry or reporting a parse failure),
\* so no run ends with the AttributeError of line 81.
C12_IncompleteEntryNoCrash ==
    ~(runpc = "crashed" /\ error = "AttributeError")

\* the source key of output field f is missing from the record of the call
KeyAbsent(f) == call.data[api_extraction[f]].t = "absent"

\* the value of a present key is not of the type parse_data's branch for the
\* field works on: len(None) for the photo list, a list as a dict key
IllTyped(f) ==
    LET v == call.data[api_extraction[f]]
    IN  \/ f = "photourl" /\ v.t = "null"
        \/ f = "status" /\ v.t = "list"

\* the value config['api_extraction'] maps a present, well-typed key to
Mapped(f) ==
    LET v == call.data[api_extraction[f]]
    IN  CASE f = "photourl" -> IF v.l = <<>> THEN Str("") ELSE Str(v.l[1])
          [] f = "status" ->
               IF v.t = "str" /\ v.s = "sold" THEN Str("Sold") ELSE Str("Available")
          [] OTHER -> v

\* C13: parse_data never fails on a missing source key: it raises only for
\* an ill-typed value of a present key, and what it returns has exactly the
\* output fields of the mapping, the empty string for each field whose
\* source key is absent and the mapped value for the others.
C13_MissingKeyGivesEmpty ==
    (call.fn = "parse_data" /\ call.pc # "called") =>
        /\ call.pc = "raised" <=> \E f \in DOMAIN api_extraction : IllTyped(f)
        /\ call.pc = "returned" =>
               /\ DOMAIN call.response = DOMAIN api_extraction
               /\ \A f \in DOMAIN api_extraction :
                      call.response[f] = IF KeyAbsent(f) THEN Str("") ELSE Mapped(f)

\* a record with two keys missing and one present
C13_Witness ==
    /\ call.fn = "parse_data"
    /\ call.pc = "returned"
    /\ call.data = SparseListing
    /\ call.response = [photourl |-> Str(""), status |-> Str("Available"), price |-> Str("")]

\* out is the subsequence of us of the elements that are not in S
IsSubseqOutside(out, us, S) ==
    LET Kept == {j \in 1..Len(us) : us[j] \notin S}
    IN  /\ Len(out) = Cardinality(Kept)
        /\ \E f \in [1..Len(out) -> Kept] :
               /\ \A a, b \in 1..Len(out) : a < b => f[a] < f[b]
               /\ \A a \in 1..Len(out) : out[a] = us[f[a]]

\* the URLs of the rows of a log file, none for a missing file
RowUrls(log) == IF log.exists THEN {log.rows[k][1] : k \in 1..Len(log.rows)} ELSE {}

\* C14: filter_processed_urls returns the input subsequence of the URLs that
\* are not in the log (a missing log file counting as empty), and applied
\* to its own result against the same log it returns that result.
C14_FilterIdempotent ==
    (call.fn = "filter_processed_urls" /\ call.n >= 1) =>
        /\ IsSubseqOutside(call.out, call.urls, RowUrls(logs[UtilFile]))
        /\ call.n = 2 => call.out = call.prev
        /\ logs[UtilFile] = call.file0

\* applied twice to a list with a repeated URL, one URL of it in the log
C14_Witness ==
    /\ call.fn = "filter_processed_urls"
    /\ call.n = 2
    /\ call.urls = <<UrlBad, UrlLong, UrlBad>>
    /\ RowUrls(logs[UtilFile]) = {UrlLong, UrlMid}
    /\ call.out = <<UrlBad, UrlBad>>

\* ------------------------------------------------------------ the cutoff loop
\* the call is at the loop head with another iteration to make
InLoop(i) == i \in Workers /\ w[i].pc = "loop" /\ LoopCond(i)

\* all four cutoffs were tried and none gave a listing
AllFourFailed(i) ==
    /\ Finished(i)
    /\ ~Truthy(w[i].extracted)
    /\ w[i].current_cutoff = max_cutoff + 1

\* what a step does to call i: it starts at cutoff 3; an attempt (the only
\* step that changes the cutoff, the listing or the API count) is made at a
\* cutoff of at most 6 while no listing was extracted, and adds exactly one
StepsOfLoop(i) ==
    /\ (w[i].pc = "queued" /\ w'[i].pc # "queued") =>
           /\ w'[i].pc = "loop"
           /\ w'[i].current_cutoff = start_cutoff
           /\ w'[i].api = 0
    /\ (w[i].pc # "queued" /\ (\/ w'[i].current_cutoff # w[i].current_cutoff
                                 \/ w'[i].extracted # w[i].extracted
                                 \/ w'[i].api # w[i].api)) =>
           /\ w[i].pc = "loop"
           /\ w[i].current_cutoff <= max_cutoff
           /\ ~Truthy(w[i].extracted)
           /\ w'[i].current_cutoff = w[i].current_cutoff + 1
           /\ w'[i].api <= w[i].api + 1

\* C15 as stated, for its last part: a call whose four attempts all failed
\* has appended its URL to the unprocessed log and to no other.
C15_ExhaustedRecordsUnprocessed ==
    \A i \in Workers : AllFourFailed(i) => w[i].wrote = <<"unprocessed_urls">>

\* C15 as amended: process_url attempts extraction first at cutoff 3, adds
\* exactly 1 to the cutoff after each attempt, attempts nothing above cutoff 6
\* nor after a listing was extracted, and the loop terminates; when all
\* four attempts failed the URL is appended to the unprocessed log only,
\* unless that append hit an I/O error, and then to no log.
C15_CutoffLoop ==
    /\ [][\A i \in (DOMAIN w) \cap (DOMAIN w') : StepsOfLoop(i)]_vars
    /\ [](\A i \in Workers :
             /\ w[i].pc # "queued" =>
                    w[i].current_cutoff \in start_cutoff..(max_cutoff + 1)
             /\ Truthy(w[i].extracted) => w[i].ok_cutoff = w[i].current_cutoff - 1
             /\ AllFourFailed(i) =>
                    w[i].wrote = IF w[i].io_error THEN <<>> ELSE <<"unprocessed_urls">>)
    /\ \A i \in 1..MaxScrap : InLoop(i) ~> ~InLoop(i)

\* four attempts at cutoffs 3, 4, 5, 6 reached the API, all failed, and the
\* URL was logged Unprocessed
C15_Witness ==
    \E i \in Workers :
        /\ AllFourFailed(i)
        /\ w[i].api = 4
        /\ w[i].wrote = <<"unprocessed_urls">>

\* ---------------------------------------------------------- resolution fails
\* create_target_url fails at the cutoff the call is at
ResolutionFailed(i) ==
    /\ w[i].pc # "queued"
    /\ ~Truthy(w[i].extracted)
    /\ w[i].current_cutoff <= max_cutoff
    /\ ~create_target_url(batch[i], w[i].current_cutoff).ok

\* the vendor-API requests of the attempts at the cutoffs below c
RequestsBelow(u, c) ==
    Cardinality({d \in start_cutoff..(c - 1) : SendsRequest(create_target_url(u, d))})

\* C16 as stated: when create_target_url fails the call ends with its URL
\* appended to the unprocessed log.
C16_ResolutionFailureRecorded ==
    \A i \in Workers :
        (ResolutionFailed(i) /\ Finished(i)) => w[i].wrote = <<"unprocessed_urls">>

\* C16 as amended: no call gets past a cutoff at which create_target_url
\* fails; at such a cutoff it goes straight to appending its URL to the
\* unprocessed log, having made only the vendor-API requests of the lower
\* cutoffs and no delivery call, and it ends with that one entry, or with
\* none when the append hit an I/O error.
C16_ResolutionFailureAborts ==
    \A i \in Workers :
        /\ w[i].pc # "queued" =>
               \A c \in start_cutoff..(w[i].current_cutoff - 1) :
                   create_target_url(batch[i], c).ok
        /\ ResolutionFailed(i) =>
               /\ w[i].pc \in {"loop", "save", "writing", "done"}
               /\ w[i].pc \in {"save", "writing"} => w[i].file_path = "unprocessed_urls"
               /\ w[i].posts = 0
               /\ w[i].api = RequestsBelow(batch[i], w[i].current_cutoff)
               /\ Finished(i) =>
                      w[i].wrote = IF w[i].io_error THEN <<>> ELSE <<"unprocessed_urls">>

\* a URL that reached the API at cutoffs 3 and 4, got no listing at 5 and
\* could not be resolved at cutoff 6
C16_Witness ==
    \E i \in Workers :
        /\ ResolutionFailed(i)
        /\ Finished(i)
        /\ w[i].current_cutoff = max_cutoff
        /\ w[i].api = 2
        /\ w[i].wrote = <<"unprocessed_urls">>

\* ------------------------------------------------------------- across runs
\* no cutoff of process_url resolves the URL
PermanentlyMalformed(u) ==
    \A c \in start_cutoff..max_cutoff : ~create_target_url(u, c).ok

\* the URL is an element of the list
Lists(us, u) == \E k \in 1..Len(us) : us[k] = u

\* C17 as stated: a permanently malformed URL of the unprocessed log is
\* dispatched again in every later run whose sitemap lists it.
C17_MalformedRetried ==
    \A u \in Urls :
        (/\ runpc = "batched"
         /\ PermanentlyMalformed(u)
         /\ u \in Logged0("unprocessed_urls")
         /\ Lists(filtered_urls, u)) => Lists(batch, u)

\* C17 as amended: a permanently malformed URL that a run dispatches ends in
\* the unprocessed log (unless the append hit an I/O error), and a URL that
\* the unprocessed log holds when a run starts is not dispatched in that run.
C17_MalformedNotRetried ==
    /\ \A i \in Workers :
           (Finished(i) /\ PermanentlyMalformed(batch[i]) /\ ~w[i].io_error) =>
               /\ w[i].wrote = <<"unprocessed_urls">>
               /\ batch[i] \in LogSet(logs["unprocessed_urls"])
    /\ \A u \in Logged0("unprocessed_urls") : ~Lists(batch, u)

\* a second run whose sitemap lists the malformed URL that the first run
\* logged Unprocessed, next to a fresh URL: only the fresh one is dispatched
C17_Witness ==
    /\ runs = 2
    /\ runpc = "batched"
    /\ UrlBad \in Logged0("unprocessed_urls")
    /\ filtered_urls = <<UrlBad, UrlMid>>
    /\ batch = <<UrlMid>>

\* the URLs of a list that neither the processed nor the unprocessed log
\* held when the run started
Unlogged(us) ==
    SelectSeq(us, LAMBDA u : u \notin Logged0("processed_urls") \cup Logged0("unprocessed_urls"))

\* a URL of the unsaved log that is in neither of the two other logs
UnsavedOnly(u) ==
    /\ u \in Logged0("unsaved_urls")
    /\ u \notin Logged0("processed_urls") \cup Logged0("unprocessed_urls")

\* C20 as stated: a URL of the unsaved log that is in neither of the other
\* logs is dispatched in each later run whose sitemap lists it.
C20_UnsavedDispatchedAgain ==
    \A u \in Urls :
        (runpc = "batched" /\ UnsavedOnly(u) /\ Lists(filtered_urls, u)) => Lists(batch, u)

\* C20 as amended: the unsaved log excludes nothing: the batch of a run is
\* the first max_scrap of the listed URLs that are in neither the processed
\* nor the unprocessed log, so such a URL of the unsaved log is dispatched
\* again whenever it is among those first max_scrap.
C20_UnsavedNotExcluded ==
    runpc = "batched" =>
        /\ batch = SliceTo(Unlogged(filtered_urls), max_scrap)
        /\ \A k \in 1..Len(Unlogged(filtered_urls)) :
               (k <= max_scrap /\ UnsavedOnly(Unlogged(filtered_urls)[k])) =>
                   batch[k] = Unlogged(filtered_urls)[k]

\* the number of rows of the log that hold the URL
Count(log, u) == Cardinality({k \in 1..Len(log.rows) : log.rows[k] = Row(u)})

\* a URL logged Unsaved by the first run was dispatched again by the second
\* and is now in the processed log as well
C20_Witness ==
    /\ runs = 2
    /\ \E i \in Workers :
           /\ UnsavedOnly(batch[i])
           /\ w[i].wrote = <<"processed_urls">>
           /\ batch[i] \in LogSet(logs["unsaved_urls"]) \cap LogSet(logs["processed_urls"])

\* a URL logged Unsaved by the first run and again by the second
C20_WitnessTwice ==
    /\ runs = 2
    /\ \E i \in Workers :
           /\ Count(logs0["unsaved_urls"], batch[i]) = 1
           /\ w[i].wrote = <<"unsaved_urls">>
           /\ Count(logs["unsaved_urls"], batch[i]) = 2

\* ------------------------------------------------------------------ cleanup
\* C18: in a run that reaches fan-out the sitemap file is deleted, by the
\* step that ends the run and only when every dispatched process_url has
\* ended (returned or raised); that step changes no call, so none is
\* cancelled, and the run does get there.
C18_CleanupAfterAllWorkers ==
    /\ [][(sitemap_exists /\ ~sitemap_exists') =>
             /\ runpc = "fanout"
             /\ runpc' = "done"
             /\ \A i \in Workers : Finished(i)
             /\ w' = w]_vars
    /\ [](runpc = "done" =>
             /\ ~sitemap_exists
             /\ DOMAIN w = 1..Len(batch)
             /\ \A i \in Workers : Finished(i))
    /\ [](runpc = "fanout" => sitemap_exists)
    /\ (runpc = "fanout") ~> (runpc = "done")

\* a run of two calls, one of which raised, has ended and the file is gone
C18_Witness ==
    /\ runpc = "done"
    /\ ~sitemap_exists
    /\ Len(batch) = 2
    /\ \E i, j \in Workers : w[i].pc = "raised" /\ w[j].wrote = <<"unsaved_urls">>

\* ------------------------------------------------------ order of the stages
\* the rows the processed log gained in this run
NewProcessedRows ==
    (Len(logs0["processed_urls"].rows) + 1)..Len(logs["processed_urls"].rows)

\* C19: a call posts to the webform at most once and only with a listing
\* extracted; it turns to the processed log only after that post returned
\* 200; and every row the processed log gains is the URL of a call whose
\* post returned 200.
C19_StagesSequential ==
    /\ \A i \in Workers :
           /\ w[i].posts <= 1
           /\ w[i].posts = 1 =>
                  /\ Truthy(w[i].extracted)
                  /\ w[i].ok_cutoff \in start_cutoff..max_cutoff
                  /\ ~LoopCond(i)
           /\ w[i].posts = 0 => w[i].status = 0
           /\ (\/ w[i].pc \in {"save", "writing"} /\ w[i].file_path = "processed_urls"
               \/ "processed_urls" \in WroteTo(i)) =>
                  w[i].posts = 1 /\ w[i].status = HTTP_OK
    /\ \A k \in NewProcessedRows :
           \E i \in Workers :
               /\ Row(batch[i]) = logs["processed_urls"].rows[k]
               /\ w[i].status = HTTP_OK
               /\ w[i].wrote = <<"processed_urls">>

\* a call that extracted at cutoff 3, posted once, got 200 and is logged
C19_Witness ==
    \E i \in Workers :
        /\ w[i].pc = "done"
        /\ w[i].api = 1
        /\ w[i].posts = 1
        /\ w[i].status = HTTP_OK
        /\ logs["processed_urls"].rows = <<Row(batch[i])>>

====
